---- MODULE Spec2Model ----
(***************************************************************************)
(* A model of PixelGL (src/js/PixelGL.js): one PixelGL instance, the WebGL *)
(* objects it owns, and the asynchronous initialize calls in flight on it. *)
(*                                                                         *)
(* `this' is the instance as a record whose domain is the set of fields    *)
(* that have been assigned (a field outside DOMAIN this is `undefined').   *)
(* `gpu' is the WebGL side: texture objects and their contents, live       *)
(* shader and program objects, the program in use, the matrix uniform.     *)
(* Handles are positive integers, Null (0) is JavaScript's null.           *)
(***************************************************************************)
EXTENDS Integers, Sequences, FiniteSets, TLC

VARIABLES this, gpu, calls, clock, ret, hist, mx

vars == <<this, gpu, calls, clock, ret, hist>>

allvars == <<this, gpu, calls, clock, ret, hist, mx>>

(***************************************************************************)
(* Bounds of the model.                                                    *)
(***************************************************************************)
MaxSize == 3
MaxCalls == 2
MaxClock == 1
MaxDim == 41

Null == 0
Undefined == -1

Has(f) == f \in DOMAIN this

\* The surface sizes constructed: width and height positive, width + height <= MaxSize.
Dims == { d \in (1..MaxSize) \X (1..MaxSize) : d[1] + d[2] <= MaxSize }

(***************************************************************************)
(* Typed-array element access (Uint8Array): a store converts the value     *)
(* modulo 2^8 and is dropped when the index is not a valid element index;  *)
(* a load of such an index yields undefined.  Indices are 0-based.         *)
(* Undefined stands for the JavaScript value undefined (as a number, NaN,  *)
(* which a Uint8Array stores as 0); no number a caller passes equals it.   *)
(***************************************************************************)
ToUint8(v) == IF v = Undefined THEN 0 ELSE v % 256

\* A store into a plain Array, which grows to hold the index.
ArraySet(arr, idx, v) ==
    IF idx < 0 THEN arr
    ELSE [i \in 1..(IF idx + 1 > Len(arr) THEN idx + 1 ELSE Len(arr)) |->
            IF i = idx + 1 THEN ToUint8(v) ELSE IF i <= Len(arr) THEN arr[i] ELSE 0]

TypedSet(arr, idx, v) ==
    IF idx \in 0..(Len(arr) - 1) THEN [arr EXCEPT ![idx + 1] = ToUint8(v)] ELSE arr

TypedGet(arr, idx) ==
    IF idx \in 0..(Len(arr) - 1) THEN arr[idx + 1] ELSE Undefined

\* source[i] of a caller's array or typed array.
ArrayGet(arr, idx) ==
    IF idx \in 0..(Len(arr) - 1) THEN arr[idx + 1] ELSE Undefined

Uint8Array(n) == [i \in 1..n |-> 0]

SetField(r, f, v) == [k \in (DOMAIN r) \cup {f} |-> IF k = f THEN v ELSE r[k]]

(***************************************************************************)
(* Float32Array elements.  A float32 value is the pair <<m, e>> standing   *)
(* for m * 2^e, kept canonical (m odd, or <<0, 0>>).  JavaScript evaluates *)
(* an expression in double precision and the store into the Float32Array   *)
(* rounds the result to 24 significant bits, ties to even.  For the        *)
(* operands that occur here (integers up to MaxDim, products of an integer *)
(* and a float32) the double-precision intermediate is exact, or, for a    *)
(* quotient, never on a float32 tie, so rounding once is what the code     *)
(* computes.  Negative zero is identified with zero.                       *)
(***************************************************************************)
Pow2(n) == 2 ^ n

Abs(n) == IF n < 0 THEN 0 - n ELSE n

Sign(n) == IF n < 0 THEN 0 - 1 ELSE 1

RECURSIVE Canon(_, _)
Canon(m, e) ==
    IF m = 0 THEN <<0, 0>>
    ELSE IF m % 2 = 0 THEN Canon(m \div 2, e + 1)
    ELSE <<m, e>>

RECURSIVE ExcessBits(_)
ExcessBits(a) == IF a < Pow2(24) THEN 0 ELSE 1 + ExcessBits(a \div 2)

\* Math.fround of the exact value n * 2^e.
Fround(n, e) ==
    LET a == Abs(n)
        k == ExcessBits(a)
        q == a \div Pow2(k)
        r == a % Pow2(k)
        up == k > 0 /\ (2 * r > Pow2(k) \/ (2 * r = Pow2(k) /\ q % 2 = 1))
    IN  Canon(Sign(n) * (IF up THEN q + 1 ELSE q), e + k)

RECURSIVE QuotShift(_, _, _)
QuotShift(p, q, t) ==
    IF (p * Pow2(t)) \div q >= Pow2(23) THEN t ELSE QuotShift(p, q, t + 1)

\* The float32 nearest to p / q, for integers p and q, q # 0.
FDiv(p, q) ==
    IF p = 0 THEN <<0, 0>>
    ELSE LET a == Abs(p)
             b == Abs(q)
             t == QuotShift(a, b, 0)
             n == (a * Pow2(t)) \div b
             r == (a * Pow2(t)) % b
             up == 2 * r > b \/ (2 * r = b /\ n % 2 = 1)
         IN  Canon(Sign(p) * Sign(q) * (IF up THEN n + 1 ELSE n), 0 - t)

FromInt(n) == Canon(n, 0)

\* Exact product and sum of two values m * 2^e (the double-precision result).
DMul(a, b) == Canon(a[1] * b[1], a[2] + b[2])

DAdd(a, b) ==
    LET e == IF a[2] < b[2] THEN a[2] ELSE b[2]
    IN  Canon(a[1] * Pow2(a[2] - e) + b[1] * Pow2(b[2] - e), e)

Store(d) == Fround(d[1], d[2])

At(mat, i) == mat[i + 1]

(***************************************************************************)
(* Matrix builder.  A matrix is a sequence of 16 float32 values; element   *)
(* [i] of the code is At(mat, i).  createOrthographicMatrix reads          *)
(* gl.canvas.width and gl.canvas.height, passed here as cw and ch.         *)
(***************************************************************************)
createOrthographicMatrix(cw, ch) ==
    LET left == 0
        right == cw
        bottom == ch
        top == 0
        near == 0 - 1
        far == 1
    IN  << FDiv(2, right - left), FromInt(0), FromInt(0), FromInt(0),
           FromInt(0), FDiv(2, top - bottom), FromInt(0), FromInt(0),
           FromInt(0), FromInt(0), FDiv(2, near - far), FromInt(0),
           FDiv(left + right, left - right), FDiv(bottom + top, bottom - top),
           FDiv(near + far, near - far), FromInt(1) >>

translateMatrix(src, tx, ty) ==
    LET x == FromInt(tx)
        y == FromInt(ty)
        row(c) == Store(DAdd(DAdd(DAdd(DMul(At(src, c), x), DMul(At(src, 4 + c), y)),
                                  At(src, 8 + c)), At(src, 12 + c)))
    IN  << At(src, 0), At(src, 1), At(src, 2), At(src, 3),
           At(src, 4), At(src, 5), At(src, 6), At(src, 7),
           At(src, 8), At(src, 9), At(src, 10), At(src, 11),
           row(0), row(1), row(2), row(3) >>

\* A scale that applies sy to the first row and sx to the second.
scaleMatrixSwapped(src, sx, sy) ==
    LET x == FromInt(sx)
        y == FromInt(sy)
    IN  << Store(DMul(y, At(src, 0))), Store(DMul(y, At(src, 1))),
           Store(DMul(y, At(src, 2))), Store(DMul(y, At(src, 3))),
           Store(DMul(x, At(src, 4))), Store(DMul(x, At(src, 5))),
           Store(DMul(x, At(src, 6))), Store(DMul(x, At(src, 7))),
           At(src, 8), At(src, 9), At(src, 10), At(src, 11),
           At(src, 12), At(src, 13), At(src, 14), At(src, 15) >>

scaleMatrix(src, sx, sy) ==
    LET x == FromInt(sx)
        y == FromInt(sy)
    IN  << Store(DMul(x, At(src, 0))), Store(DMul(x, At(src, 1))),
           Store(DMul(x, At(src, 2))), Store(DMul(x, At(src, 3))),
           Store(DMul(y, At(src, 4))), Store(DMul(y, At(src, 5))),
           Store(DMul(y, At(src, 6))), Store(DMul(y, At(src, 7))),
           At(src, 8), At(src, 9), At(src, 10), At(src, 11),
           At(src, 12), At(src, 13), At(src, 14), At(src, 15) >>

\* The matrix initialize uploads as u_matrix (lines 184-186).
composeMatrix(cw, ch, w, h) ==
    scaleMatrix(translateMatrix(createOrthographicMatrix(cw, ch), 0, 0), w, h)

\* Clip-space x and y of the quad vertex (x, y, 0, 1) under the column-major
\* matrix mat: the vertex stage's product u_matrix * a_position.
transformVertex(mat, x, y) ==
    << DAdd(DAdd(DMul(At(mat, 0), FromInt(x)), DMul(At(mat, 4), FromInt(y))), At(mat, 12)),
       DAdd(DAdd(DMul(At(mat, 1), FromInt(x)), DMul(At(mat, 5), FromInt(y))), At(mat, 13)) >>

(***************************************************************************)
(* The constructor.  env is what the page offers: "ok", "noCanvas" (the    *)
(* selector matches no element) or "noContext" (getContext returns null).  *)
(***************************************************************************)
NoGpu ==
    [canvas |-> <<>>, viewport |-> <<>>, textures |-> <<>>, bound |-> Null,
     shaders |-> {}, programs |-> {}, used |-> Null, matrix |-> <<>>,
     buffers |-> 0, next |-> 1]

createEmptyTexture(g, w, h, data) ==
    [g EXCEPT !.textures = Append(g.textures, data), !.bound = Len(g.textures) + 1]

\* Lines 50-88: the constructor once the canvas and its context are in hand.
ConstructSafe(w, h) ==
    LET pixelCount == w * h
        byteCount == pixelCount * 4
        data == Uint8Array(byteCount)
        g0 == [NoGpu EXCEPT !.canvas = <<w, h>>, !.viewport = <<0, 0, w, h>>]
        g1 == createEmptyTexture(g0, w, h, data)
    IN  [this |-> [safe |-> TRUE, initialized |-> FALSE, canvas |-> 1, gl |-> 1,
                   width |-> w, height |-> h,
                   pixelCount |-> pixelCount, byteCount |-> byteCount,
                   data |-> data,
                   textureLevel |-> 0, textureBorder |-> 0,
                   texture |-> g1.bound,
                   program |-> Null,
                   attribLocations |-> Null, uniformLocations |-> Null,
                   lastRenderDuration |-> 0, lastRenderEnded |-> 0],
         gpu |-> g1]

\* A constructor that reports the failure but does not return.
ConstructNoReturn(env, w, h) ==
    IF env = "ok" THEN ConstructSafe(w, h)
    ELSE [this |-> [ConstructSafe(w, h).this EXCEPT
                        !.canvas = IF env = "noCanvas" THEN Null ELSE 1,
                        !.gl = Null],
          gpu |-> ConstructSafe(w, h).gpu]

Construct(env, w, h) ==
    IF env = "noCanvas"
    THEN [this |-> [safe |-> FALSE, initialized |-> FALSE, canvas |-> Null],
          gpu |-> NoGpu]
    ELSE IF env = "noContext"
    THEN [this |-> [safe |-> FALSE, initialized |-> FALSE, canvas |-> 1, gl |-> Null],
          gpu |-> NoGpu]
    ELSE ConstructSafe(w, h)

\* The matrix builder at rest (mx is its work in progress, see SpecMatrix).
NoMatrix == [stage |-> "none"]

Envs == {"ok", "noCanvas", "noContext"}

NoSet == [x |-> 0, y |-> 0, red |-> 0, green |-> 0, blue |-> 0, alpha |-> 0, set |-> FALSE]

Return(op, result, diag, glCalls) ==
    [op |-> op, result |-> result, threw |-> FALSE, diag |-> diag, gl |-> glCalls]

\* A TypeError escapes the call (a field of the instance is undefined or null).
Throw(op) ==
    [op |-> op, result |-> Undefined, threw |-> TRUE, diag |-> <<>>, gl |-> <<>>]

Init ==
    \E env \in Envs, d \in Dims :
        LET c == Construct(env, d[1], d[2])
        IN  /\ this = c.this
            /\ gpu = c.gpu
            /\ calls = <<>>
            /\ clock = 0
            /\ ret = Return("constructor", Undefined,
                            IF env = "ok" THEN <<>> ELSE <<"Error">>, <<>>)
            /\ mx = NoMatrix
            /\ hist = [lastSet |-> NoSet,
                       rendered |-> IF env = "ok" THEN Uint8Array(d[1] * d[2] * 4) ELSE <<>>,
                       renders |-> 0, calls |-> 0]

(***************************************************************************)
(* Pixel buffer accessors.                                                 *)
(***************************************************************************)
PixelIndex(x, y, w) == ((y * w) + x) * 4

\* A write that stores blue and alpha in each other's byte.
WritePixelSwapped(data, index, red, green, blue, alpha) ==
    TypedSet(TypedSet(TypedSet(TypedSet(data, index + 0, red),
                               index + 1, green), index + 3, blue), index + 2, alpha)

WritePixel(data, index, red, green, blue, alpha) ==
    TypedSet(TypedSet(TypedSet(TypedSet(data, index + 0, red),
                               index + 1, green), index + 2, blue), index + 3, alpha)

ReadPixel(data, index, x, y) ==
    [x |-> x, y |-> y,
     red |-> TypedGet(data, index + 0), green |-> TypedGet(data, index + 1),
     blue |-> TypedGet(data, index + 2), alpha |-> TypedGet(data, index + 3)]

Colours == { <<255, 0, 0, 255>>, <<256, 0 - 2, 7, 300>> }

\* The coordinates the caller passes: every pixel of a w x h surface, and three
\* out-of-range ones (one column too far, one column before, one row too far).
Coords(w, h) ==
    ((0..(w - 1)) \X (0..(h - 1))) \cup { <<w, 0>>, <<0 - 1, h - 1>>, <<0, h>> }

setPixel(x, y, red, green, blue, alpha) ==
    /\ hist.calls < MaxCalls
    /\ IF Has("data")
       THEN LET index == PixelIndex(x, y, this.width)
            IN  /\ this' = [this EXCEPT !.data = WritePixel(@, index, red, green, blue, alpha)]
                /\ ret' = Return("setPixel", Undefined, <<>>, <<>>)
       ELSE /\ ret' = Throw("setPixel")
            /\ UNCHANGED this
    /\ hist' = [hist EXCEPT !.calls = @ + 1,
                            !.lastSet = [x |-> x, y |-> y, red |-> red, green |-> green,
                                         blue |-> blue, alpha |-> alpha, set |-> TRUE]]
    /\ UNCHANGED <<gpu, calls, clock, mx>>

getPixel(x, y) ==
    /\ hist.calls < MaxCalls
    /\ hist' = [hist EXCEPT !.calls = @ + 1]
    /\ IF Has("data")
       THEN ret' = Return("getPixel", ReadPixel(this.data, PixelIndex(x, y, this.width), x, y),
                          <<>>, <<>>)
       ELSE ret' = Throw("getPixel")
    /\ UNCHANGED <<this, gpu, calls, clock, mx>>

RECURSIVE LoadLoop(_, _, _)
LoadLoop(data, source, i) ==
    IF i < Len(data) THEN LoadLoop(TypedSet(data, i, ArrayGet(source, i)), source, i + 1)
    ELSE data

\* A guard that lets a source that is too short through.
LengthCheckLongerOnly(source, data) == Len(source) > Len(data)

\* Line 477.
LengthMismatch(source, data) == Len(source) # Len(data)

\* The sources the caller passes: byte sequences one element short, of the
\* buffer's length and one pixel longer, and an array of the buffer's length
\* whose elements are not all bytes.
Bytes(n) == [i \in 1..n |-> (37 * i) % 256]

Sources(byteCount) ==
    { Bytes(byteCount - 1), Bytes(byteCount), Bytes(byteCount + 4),
      [i \in 1..byteCount |-> 250 + i] }

loadPixelData(source) ==
    /\ hist.calls < MaxCalls
    /\ IF ~Has("data")
       THEN /\ ret' = [Throw("loadPixelData") EXCEPT !.result = source]
            /\ UNCHANGED this
            /\ hist' = [hist EXCEPT !.calls = @ + 1]
       ELSE IF LengthMismatch(source, this.data)
       THEN /\ ret' = Return("loadPixelData", source,
                             <<"Unable to load pixel data with different dimensions.">>, <<>>)
            /\ UNCHANGED this
            /\ hist' = [hist EXCEPT !.calls = @ + 1]
       ELSE /\ this' = [this EXCEPT !.data = LoadLoop(@, source, 0)]
            /\ ret' = Return("loadPixelData", source, <<>>, <<>>)
            /\ hist' = [hist EXCEPT !.calls = @ + 1, !.lastSet = NoSet]
    /\ UNCHANGED <<gpu, calls, clock, mx>>

(***************************************************************************)
(* Renderer.  performance.now() is a clock that never goes backwards.      *)
(***************************************************************************)
\* An update that binds the texture and uploads nothing.
updateTextureBindOnly(g, texture, data) ==
    [g EXCEPT !.bound = texture]

updateTexture(g, texture, data) ==
    [g EXCEPT !.bound = texture, !.textures[texture] = data]

\* The statistics render stores (lines 464-465), with the end of the call
\* stored as the duration and its start as the end.
renderStatisticsSwapped(t, renderBegin, renderFinish) ==
    [t EXCEPT !.lastRenderDuration = renderFinish,
              !.lastRenderEnded = renderBegin]

renderStatistics(t, renderBegin, renderFinish) ==
    [t EXCEPT !.lastRenderDuration = renderFinish - renderBegin,
              !.lastRenderEnded = renderFinish]

render ==
    \E renderBegin \in clock..MaxClock :
        \E renderFinish \in renderBegin..MaxClock :
            /\ hist.calls < MaxCalls
            /\ UNCHANGED mx
            /\ IF Has("gl") /\ this.gl # Null
               THEN /\ gpu' = updateTexture(gpu, this.texture, this.data)
                    /\ this' = renderStatistics(this, renderBegin, renderFinish)
                    /\ clock' = renderFinish
                    /\ ret' = Return("render", Undefined, <<>>,
                                     <<"bindTexture", "texImage2D", "drawArrays">>)
                    /\ hist' = [hist EXCEPT !.calls = @ + 1, !.rendered = this.data,
                                            !.renders = @ + 1]
                    /\ UNCHANGED calls
               ELSE /\ renderFinish = renderBegin
                    /\ clock' = renderBegin
                    /\ ret' = Throw("render")
                    /\ hist' = [hist EXCEPT !.calls = @ + 1]
                    /\ UNCHANGED <<this, gpu, calls>>

(***************************************************************************)
(* initialize.  An invocation runs synchronously down to the two fetches   *)
(* (initialize -> createShaderProgram -> compileShaders) and is then       *)
(* suspended on I/O three times; other calls on the instance may run       *)
(* while it is.  Each invocation is a record of calls; pc names the await  *)
(* it is suspended at:                                                     *)
(*   "fetch"                Promise.all of the two fetches      (line 258) *)
(*   "textV", "textF"       the two response.text() calls  (lines 270-271) *)
(*   "resolved", "rejected" the promise initialize returned has settled.   *)
(* When compileShaders returns, the awaits of createShaderProgram (line    *)
(* 207) and initialize (line 123) resume in the same microtask checkpoint; *)
(* the instance is written only by the last of these segments, so the      *)
(* three run here as one step.  A rejection propagates through the         *)
(* awaiting callers, none of which catches it, and rejects the promise of  *)
(* initialize.                                                             *)
(***************************************************************************)
Rejected == 0 - 1

Statuses == {200, 404}

FetchOutcomes == Statuses \cup {Rejected}

NewCall ==
    [pc |-> "fetch", vertex |-> 0, fragment |-> 0, compiled |-> <<>>, linked |-> "none",
     program |-> Null, diag |-> <<>>]

Suspended(i, pc) == i \in 1..Len(calls) /\ calls[i].pc = pc

initialize ==
    /\ hist.calls < MaxCalls
    /\ calls' = Append(calls, NewCall)
    /\ hist' = [hist EXCEPT !.calls = @ + 1]
    /\ UNCHANGED <<this, gpu, clock, ret, mx>>

\* A compileShader that leaves a shader object that did not compile alive.
compileShaderKeepsFailed(g, compiled) ==
    [gpu |-> [g EXCEPT !.next = @ + 1, !.shaders = @ \cup {g.next}],
     shader |-> IF compiled THEN g.next ELSE Null,
     diag |-> IF compiled THEN <<>> ELSE <<"Error compiling shader.">>]

\* compileShader, lines 295-317, on the WebGL objects g: the shader object made
\* and, when it does not compile, deleted again.
compileShader(g, compiled) ==
    [gpu |-> [g EXCEPT !.next = @ + 1,
                       !.shaders = IF compiled THEN @ \cup {g.next} ELSE @],
     shader |-> IF compiled THEN g.next ELSE Null,
     diag |-> IF compiled THEN <<>> ELSE <<"Error compiling shader.">>]

\* compileShaders, lines 275-285: both stages are compiled, then checked.
compileShaders(g, vertexCompiles, fragmentCompiles) ==
    LET v == compileShader(g, vertexCompiles)
        f == compileShader(v.gpu, fragmentCompiles)
        null == v.shader = Null \/ f.shader = Null
    IN  [gpu |-> f.gpu,
         shaders |-> IF null THEN <<>> ELSE <<v.shader, f.shader>>,
         diag |-> v.diag \o f.diag \o
                  (IF null THEN <<"Could not compile shaders.">> ELSE <<>>)]

\* createShaderProgram, lines 209-240, given what compileShaders returned
\* (<<>> stands for null).
createShaderProgram(g, shaders, links) ==
    IF shaders = <<>>
    THEN [gpu |-> g, program |-> Null, diag |-> <<"Could not load shaders.">>]
    ELSE [gpu |-> [g EXCEPT !.next = @ + 1,
                            !.programs = IF links THEN @ \cup {g.next} ELSE @],
          program |-> IF links THEN g.next ELSE Null,
          diag |-> IF links THEN <<>> ELSE <<"Error linking shader program.">>]

\* An initialize that marks the instance initialized before looking at the program.
initializeMarksFirst(t, g, program) ==
    [this |-> SetField(SetField(t, "program", program), "initialized", TRUE),
     gpu |-> [g EXCEPT !.used = program],
     diag |-> IF program = Null THEN <<"Error creating shader program.">> ELSE <<>>]

\* initialize, lines 123-192, given what createShaderProgram returned.
initializeWith(t, g, program) ==
    LET stored == SetField(t, "program", program)
    IN  IF program = Null
        THEN [this |-> stored, gpu |-> g, diag |-> <<"Error creating shader program.">>]
        ELSE [this |-> SetField(SetField(SetField(SetField(SetField(stored,
                          "attribLocations", [position |-> 0, texcoord |-> 1]),
                          "uniformLocations", [matrix |-> 0, texture |-> 1]),
                          "positionBuffer", g.buffers + 1),
                          "texcoordBuffer", g.buffers + 2),
                          "initialized", TRUE),
              gpu |-> [g EXCEPT !.used = program,
                                !.buffers = @ + 2,
                                !.matrix = composeMatrix(g.canvas[1], g.canvas[2],
                                                         t.width, t.height)],
              diag |-> <<>>]

\* compileShaders, lines 258-268: the two fetches settle.
fetchSettled(i, vertex, fragment) ==
    /\ Suspended(i, "fetch")
    /\ IF vertex = Rejected \/ fragment = Rejected
       THEN /\ calls' = [calls EXCEPT ![i] =
                   [@ EXCEPT !.pc = "rejected", !.vertex = vertex, !.fragment = fragment]]
            /\ UNCHANGED <<this, gpu>>
       ELSE IF vertex # 200 \/ fragment # 200
       THEN LET p == createShaderProgram(gpu, <<>>, FALSE)
                r == initializeWith(this, p.gpu, p.program)
            IN  /\ this' = r.this
                /\ gpu' = r.gpu
                /\ calls' = [calls EXCEPT ![i] =
                      [@ EXCEPT !.pc = "resolved", !.vertex = vertex, !.fragment = fragment,
                                !.diag = <<"Error retrieving source for shader.">>
                                         \o p.diag \o r.diag]]
       ELSE /\ calls' = [calls EXCEPT ![i] =
                   [@ EXCEPT !.pc = "textV", !.vertex = vertex, !.fragment = fragment]]
            /\ UNCHANGED <<this, gpu>>
    /\ UNCHANGED <<clock, ret, hist, mx>>

\* compileShaders, line 270.
vertexTextSettled(i, ok) ==
    /\ Suspended(i, "textV")
    /\ calls' = [calls EXCEPT ![i].pc = IF ok THEN "textF" ELSE "rejected"]
    /\ UNCHANGED <<this, gpu, clock, ret, hist, mx>>

\* compileShaders, line 271 on: the second text settles, both stages compile,
\* the program is linked and initialize completes.
fragmentTextSettled(i, ok, vertexCompiles, fragmentCompiles, links) ==
    /\ Suspended(i, "textF")
    /\ IF ~ok
       THEN /\ calls' = [calls EXCEPT ![i].pc = "rejected"]
            /\ UNCHANGED <<this, gpu>>
       ELSE IF ~(Has("gl") /\ this.gl # Null)
       THEN /\ calls' = [calls EXCEPT ![i].pc = "rejected", ![i].linked = "TypeError"]
            /\ UNCHANGED <<this, gpu>>
       ELSE LET c == compileShaders(gpu, vertexCompiles, fragmentCompiles)
                p == createShaderProgram(c.gpu, c.shaders, links)
                r == initializeWith(this, p.gpu, p.program)
            IN  /\ this' = r.this
                /\ gpu' = r.gpu
                /\ calls' = [calls EXCEPT ![i] =
                      [@ EXCEPT !.pc = "resolved",
                                !.compiled = <<vertexCompiles, fragmentCompiles>>,
                                !.linked = IF c.shaders = <<>> THEN "none"
                                           ELSE IF links THEN "linked" ELSE "failed",
                                !.program = p.program,
                                !.diag = c.diag \o p.diag \o r.diag]]
    /\ UNCHANGED <<clock, ret, hist, mx>>

\* What the caller knows of the surface it asked for (an instance that is not
\* safe has no width, height or byteCount; the caller asked for 1 x 1).
Width == IF Has("width") THEN this.width ELSE 1
Height == IF Has("height") THEN this.height ELSE 1

Next ==
    \/ \E p \in Coords(Width, Height), c \in Colours :
          setPixel(p[1], p[2], c[1], c[2], c[3], c[4])
    \/ \E p \in Coords(Width, Height) : getPixel(p[1], p[2])
    \/ \E source \in Sources(Width * Height * 4) : loadPixelData(source)
    \/ render
    \/ initialize
    \/ \E i \in 1..MaxCalls, v \in FetchOutcomes, f \in FetchOutcomes : fetchSettled(i, v, f)
    \/ \E i \in 1..MaxCalls, ok \in BOOLEAN : vertexTextSettled(i, ok)
    \/ \E i \in 1..MaxCalls, ok \in BOOLEAN, cv \in BOOLEAN, cf \in BOOLEAN, links \in BOOLEAN :
          fragmentTextSettled(i, ok, cv, cf, links)

Spec == Init /\ [][Next]_allvars

(***************************************************************************)
(* The matrix builder on its own: the transform initialize computes (lines *)
(* 184-188) for a surface of mx.width x mx.height, one routine per step,   *)
(* and the clip-space position the vertex stage gives the quad's corners.  *)
(***************************************************************************)
InitMatrix ==
    /\ \E w \in 1..MaxDim, h \in 1..MaxDim :
          mx = [stage |-> "start", width |-> w, height |-> h]
    /\ \E c \in {Construct("ok", 1, 1)} :
          /\ this = c.this
          /\ gpu = c.gpu
    /\ calls = <<>>
    /\ clock = 0
    /\ ret = Return("constructor", Undefined, <<>>, <<>>)
    /\ hist = [lastSet |-> NoSet, rendered |-> Uint8Array(4), renders |-> 0, calls |-> 0]

orthographic ==
    /\ mx.stage = "start"
    /\ mx' = [stage |-> "orthographic", width |-> mx.width, height |-> mx.height,
              ortho |-> createOrthographicMatrix(mx.width, mx.height),
              matrix |-> createOrthographicMatrix(mx.width, mx.height)]
    /\ UNCHANGED vars

translate ==
    /\ mx.stage = "orthographic"
    /\ mx' = [mx EXCEPT !.stage = "translated", !.matrix = translateMatrix(@, 0, 0)]
    /\ UNCHANGED vars

scale ==
    /\ mx.stage = "translated"
    /\ mx' = [mx EXCEPT !.stage = "scaled",
                        !.matrix = scaleMatrix(@, mx.width, mx.height)]
    /\ UNCHANGED vars

\* uniformMatrix4fv (line 188) and the quad's corners (lines 148-155) drawn.
draw ==
    /\ mx.stage = "scaled"
    /\ mx' = [stage |-> "drawn", width |-> mx.width, height |-> mx.height,
              ortho |-> mx.ortho, matrix |-> mx.matrix,
              topLeft |-> transformVertex(mx.matrix, 0, 0),
              bottomRight |-> transformVertex(mx.matrix, 1, 1)]
    /\ UNCHANGED vars

NextMatrix == orthographic \/ translate \/ scale \/ draw

SpecMatrix == InitMatrix /\ [][NextMatrix]_allvars

(***************************************************************************)
(* Properties.                                                             *)
(***************************************************************************)
IsByte(v) == v \in 0..255

InBounds(x, y) ==
    Has("width") /\ x \in 0..(this.width - 1) /\ y \in 0..(this.height - 1)

\* A public call completes in this step and op is the operation called.
Called(op) == hist'.calls # hist.calls /\ ret' # ret /\ ret'.op = op

Settled(c) == c.pc \in {"resolved", "rejected"}

\* The invocation went through every stage: both fetches answered 200, both
\* stages compiled, the program linked.
AllStagesOk(c) ==
    /\ c.pc = "resolved"
    /\ c.vertex = 200 /\ c.fragment = 200
    /\ c.compiled = <<TRUE, TRUE>>
    /\ c.linked = "linked"

\* Invocation i of initialize settles in this step.
Settles(i) == i \in 1..Len(calls) /\ ~Settled(calls[i]) /\ Settled(calls'[i])

SomeFailed == \E i \in 1..Len(calls) : Settled(calls[i]) /\ ~AllStagesOk(calls[i])

LastSetInRange ==
    /\ hist.lastSet.set
    /\ InBounds(hist.lastSet.x, hist.lastSet.y)
    /\ IsByte(hist.lastSet.red) /\ IsByte(hist.lastSet.green)
    /\ IsByte(hist.lastSet.blue) /\ IsByte(hist.lastSet.alpha)

\* getPixel was the last call to complete, it read the pixel of the most recent
\* setPixel, and nothing has written the buffer since that setPixel.
ReadBack ==
    /\ ret.op = "getPixel" /\ ~ret.threw
    /\ LastSetInRange
    /\ ret.result.x = hist.lastSet.x /\ ret.result.y = hist.lastSet.y

\* C1: for an in-bounds pixel and channel values in 0..255, getPixel(x, y) after
\* setPixel(x, y, r, g, b, a), with no write in between, returns exactly
\* {x, y, red: r, green: g, blue: b, alpha: a}.
C1_RoundTrip ==
    ReadBack =>
        ret.result = [x |-> hist.lastSet.x, y |-> hist.lastSet.y,
                      red |-> hist.lastSet.red, green |-> hist.lastSet.green,
                      blue |-> hist.lastSet.blue, alpha |-> hist.lastSet.alpha]

C1_Witness == ReadBack /\ ret.result.x + ret.result.y > 0 /\ ret.result.alpha = 255

\* C2: loadPixelData with a source whose length differs from the buffer's leaves
\* every byte of the buffer as it was and reports a diagnostic; with a source of
\* bytes of exactly the buffer's length the buffer afterwards equals the source.
C2_Load ==
    [][ (Called("loadPixelData") /\ Has("data")) =>
            IF Len(ret'.result) # Len(this.data)
            THEN this'.data = this.data /\ ret'.diag # <<>>
            ELSE /\ ret'.diag = <<>>
                 /\ (\A i \in 1..Len(ret'.result) : IsByte(ret'.result[i]))
                        => this'.data = ret'.result ]_allvars

C2_Witness ==
    /\ ret.op = "loadPixelData" /\ ~ret.threw
    /\ Len(ret.result) # Len(this.data)
    /\ ret.diag # <<>>
    /\ \E i \in 1..Len(this.data) : this.data[i] # 0

\* C3: on a successfully constructed instance the pixel buffer's length is
\* width * height * 4 in every reachable state.
C3_BufferLength ==
    this.safe => Len(this.data) = this.width * this.height * 4

C3_Witness ==
    /\ this.safe
    /\ ret.op = "setPixel"
    /\ hist.lastSet.set /\ ~InBounds(hist.lastSet.x, hist.lastSet.y)

\* C4: initialize sets initialized only when both fetches returned a success
\* status, both stages compiled and the program linked; when a stage fails,
\* initialized is false once the call has returned.
C4_InitializedOnlyOnSuccess ==
    [][ \A i \in 1..Len(calls) :
            Settles(i) =>
                /\ (this'.initialized /\ ~this.initialized) => AllStagesOk(calls'[i])
                /\ ~AllStagesOk(calls'[i]) => ~this'.initialized ]_allvars

\* C5: the texture changes only at render, which uploads the whole buffer once
\* and then draws once: the texture always equals the pixel buffer as it was at
\* the most recent render (all zeros before the first), whatever has been
\* written since.
C5_TextureIsLastRender ==
    this.safe =>
        /\ Len(gpu.textures) = 1
        /\ gpu.textures[this.texture] = hist.rendered
        /\ (hist.renders = 0 => gpu.textures[this.texture] = Uint8Array(this.byteCount))
        /\ (ret.op = "render" => ret.gl = <<"bindTexture", "texImage2D", "drawArrays">>)
        /\ (ret.op # "render" => ret.gl = <<>>)

C5_Witness ==
    /\ this.safe
    /\ hist.renders > 0
    /\ ret.op = "setPixel"
    /\ this.data # gpu.textures[this.texture]

\* C6: no public operation lets an exception escape; when a shader fetch fails
\* at the network level, initialize completes normally with a diagnostic.
C6_NoExceptionEscapes ==
    this.safe =>
        /\ ~ret.threw
        /\ \A i \in 1..Len(calls) :
              /\ calls[i].pc # "rejected"
              /\ (Settled(calls[i])
                    /\ (calls[i].vertex = Rejected \/ calls[i].fragment = Rejected))
                 => (calls[i].pc = "resolved" /\ calls[i].diag # <<>>)

Unsafe == this.canvas = Null \/ this.gl = Null

C8_NeverInitializedAfterFailure ==
    [][ (this.safe /\ ~this.initialized /\ SomeFailed) =>
            (this'.safe /\ ~this'.initialized) ]_allvars

\* C8 as amended: once an initialize call on a safe instance has failed, the
\* instance stays safe, and initialized stays false unless another initialize
\* call on the instance (a later one, or one still pending) goes through every
\* stage; nothing else makes initialized true.
C8_InitializedOnlyByAnotherCall ==
    [][ (this.safe /\ ~this.initialized /\ SomeFailed) =>
            /\ this'.safe
            /\ this'.initialized =>
                  \E i \in 1..Len(calls) : Settles(i) /\ AllStagesOk(calls'[i]) ]_allvars

C8_Witness ==
    /\ this.safe /\ this.initialized
    /\ Len(calls) = 2
    /\ Settled(calls[1]) /\ ~AllStagesOk(calls[1])
    /\ AllStagesOk(calls[2])

\* C9: once initialize has succeeded, no later operation replaces the stored
\* program handle or resets it to null: initialized = true implies the stored
\* handle is the linked program.
C9_ProgramNeverReplaced ==
    [][ this.initialized =>
            /\ this.program \in gpu.programs
            /\ this'.initialized
            /\ this'.program = this.program ]_allvars

One == <<1, 0>>

MinusOne == <<0 - 1, 0>>

\* The float32 next below 1, 1 - 2^-23, and its negative.
BelowOne == Canon(Pow2(23) - 1, 0 - 23)

AboveMinusOne == Canon(1 - Pow2(23), 0 - 23)

\* The float32 value o is p / q to float32 precision: |o - p/q| <= 2^-24 |p/q|.
IsQuotient(o, p, q) ==
    LET m == o[1]
        e == o[2]
    IN  IF e >= 0 THEN m * Pow2(e) * q = p
        ELSE IF 0 - e >= 24
        THEN Abs(m * q - p * Pow2(0 - e)) <= Abs(p) * Pow2(0 - e - 24)
        ELSE m * q = p * Pow2(0 - e)

OrthographicEntries ==
    /\ IsQuotient(At(mx.ortho, 0), 2, mx.width)
    /\ IsQuotient(At(mx.ortho, 5), 2, 0 - mx.height)
    /\ At(mx.ortho, 12) = MinusOne
    /\ At(mx.ortho, 13) = One

\* C10 as stated: under the composed transform, for every width and height the
\* quad vertex (0,0) maps to clip-space (-1, 1) and (1,1) to (1, -1); the
\* orthographic matrix has 2/width at index 0, 2/(0-height) at index 5, -1 at
\* index 12 and 1 at index 13.
C10_CornersExact ==
    mx.stage = "drawn" =>
        /\ mx.topLeft = <<MinusOne, One>>
        /\ mx.bottomRight = <<One, MinusOne>>
        /\ OrthographicEntries

\* C10 as amended: vertex (0,0) maps to (-1, 1) exactly; vertex (1,1) maps to
\* (1, -1) or, for the widths and heights d where d * float32(2/d) rounds below
\* 2 (41 is the first), to the float32 next inside it, 1 - 2^-23 in x and
\* -1 + 2^-23 in y; the orthographic matrix has 2/width and 2/(0-height) to
\* float32 precision at indices 0 and 5, and exactly -1 and 1 at 12 and 13.
C10_CornersWithinOneStep ==
    mx.stage = "drawn" =>
        /\ mx.topLeft = <<MinusOne, One>>
        /\ mx.bottomRight[1] \in {One, BelowOne}
        /\ mx.bottomRight[2] \in {MinusOne, AboveMinusOne}
        /\ OrthographicEntries

C10_Witness ==
    /\ mx.stage = "drawn"
    /\ mx.bottomRight = <<BelowOne, AboveMinusOne>>

\* A step of render that ran to its end (on an instance with a context).
Rendered == hist'.renders = hist.renders + 1

\* C11: across any number of render calls, each call overwrites
\* lastRenderDuration with that call's end minus its start, which is not
\* negative and no longer than the time since the previous reading of the
\* clock, and sets lastRenderEnded to the clock reading at the call's end, so
\* lastRenderEnded never decreases from one call to the next (the clock never
\* going backwards); no operation other than render changes either field.
C11_RenderStatistics ==
    [][ /\ Rendered =>
            /\ this'.lastRenderDuration >= 0
            /\ this'.lastRenderDuration <= clock' - clock
            /\ this'.lastRenderEnded = clock'
            /\ this'.lastRenderEnded >= this.lastRenderEnded
        /\ ~Rendered =>
            \A f \in {"lastRenderDuration", "lastRenderEnded"} :
                /\ Has(f) <=> f \in DOMAIN this'
                /\ Has(f) => this'[f] = this[f] ]_allvars

C11_Witness ==
    /\ hist.renders >= 2
    /\ this.lastRenderDuration > 0
    /\ this.lastRenderEnded = clock

\* C12: translateMatrix with (tx, ty) = (0, 0), as initialize applies it to the
\* orthographic matrix, is a no-op: the matrix it returns equals the
\* orthographic matrix in all 16 elements.
C12_TranslateByZeroIsNoOp ==
    mx.stage = "translated" =>
        \A i \in 0..15 : At(mx.matrix, i) = At(mx.ortho, i)

\* Invocation i of initialize gets the result of its createShaderProgram in
\* this step.
ProgramReturned(i) == ~Settled(calls[i]) /\ calls'[i].pc = "resolved"

\* C13: shader-program creation failures release what failed and return no
\* program.  When a stage fails to compile, that stage's object is deleted (the
\* handles created in the step are gpu.next for the vertex stage and
\* gpu.next + 1 for the fragment stage) and createShaderProgram returns null
\* without creating a program object; when linking fails, the program object
\* (handle gpu.next + 2) is deleted and null is returned; a program handle is
\* returned only when both stages compiled and the link succeeded, and it is
\* then a live program object.
C13_FailuresReleased ==
    [][ \A i \in 1..Len(calls) :
          ProgramReturned(i) =>
            LET c == calls'[i]
            IN  /\ c.compiled = <<>> =>
                      /\ c.program = Null
                      /\ gpu'.next = gpu.next
                      /\ gpu'.shaders = gpu.shaders
                      /\ gpu'.programs = gpu.programs
                /\ c.compiled # <<>> =>
                      /\ \A s \in 1..2 :
                            (gpu.next + s - 1 \in gpu'.shaders) <=> c.compiled[s]
                      /\ c.compiled # <<TRUE, TRUE>> =>
                            /\ c.program = Null
                            /\ gpu'.next = gpu.next + 2
                            /\ gpu'.programs = gpu.programs
                      /\ (c.compiled = <<TRUE, TRUE>> /\ c.linked = "failed") =>
                            /\ c.program = Null
                            /\ gpu'.next = gpu.next + 3
                            /\ gpu'.programs = gpu.programs
                      /\ c.program # Null <=>
                            (c.compiled = <<TRUE, TRUE>> /\ c.linked = "linked")
                      /\ c.program # Null =>
                            /\ c.program = gpu.next + 2
                            /\ gpu'.programs = gpu.programs \cup {c.program} ]_allvars

C13_Witness ==
    \E i \in 1..Len(calls), j \in 1..Len(calls) :
        /\ calls[i].pc = "resolved" /\ calls[i].compiled = <<FALSE, TRUE>>
        /\ calls[j].pc = "resolved" /\ calls[j].linked = "failed"
        /\ calls[i].program = Null /\ calls[j].program = Null
        /\ gpu.programs = {}
        /\ Cardinality(gpu.shaders) = 3

====
